---- MODULE Spec2Model ----
(***************************************************************************)
(* LinkNower: the event store, the cluster store, SyncService.sync_all and *)
(* ClusterService.cluster_events, modelled as a state machine.             *)
(*                                                                         *)
(* Two callers exist: one runs sync_all, one runs cluster_events.  Every   *)
(* repository call (save_many, save, get_all) opens its own connection and *)
(* commits before it returns, so one repository call is one atomic step.   *)
(***************************************************************************)
EXTENDS Integers, Sequences, FiniteSets, TLC

VARIABLES
    eventRows,      \* table events of raw.db: rows in rowid order
    clusterStore,   \* table clusters of clusters.db: id -> row
    embeddingStore, \* the Chroma collection: event id -> embedding
    nextEventId,    \* uuid4() of the next Event
    nextEmbeddingId,\* uuid4() of the next Embedding
    syncPc,         \* sync_all: "idle", "parse" (about to sync a source), "saved"
    syncSource,     \* sync_all: index of the source being synced
    syncEvents,     \* sync_X: the local list events
    syncStats,      \* sync_all: the dict stats
    cwd_tracker,    \* sync_shell: cwd_history of the CWDTracker of the parse
    pc,             \* cluster_events: position in the method
    min_cluster_size, \* ClusteringEngine.min_cluster_size of the running service
    events,         \* cluster_events: the local list events (valid_events)
    embeddings,     \* cluster_events: the vectors of embed_many
    features,       \* cluster_events: the matrix of combine_features
    clusters,       \* cluster_events: the dict of cluster(), in insertion order
    k,              \* cluster_events: index of the dict item the loop is at
    cluster,        \* cluster_events: the Cluster of generate_cluster_summary
    num_clusters,   \* cluster_events: num_clusters
    noise_count,    \* cluster_events: noise_count
    fit_predict,    \* UMAP(random_state=42) + HDBSCAN: inputs seen -> labels
    feature_engineer, \* the FeatureEngineer: its weights, None before it is constructed
    clustering_engine, \* the ClusteringEngine: its parameters, None outside a run
    pre,            \* the two stores as they were when the run started
    stages,         \* the stages the current (or last) run has invoked
    returned        \* what the last finished call returned or raised

vars == << eventRows, clusterStore, embeddingStore, nextEventId, nextEmbeddingId,
           syncPc, syncSource, syncEvents, syncStats, cwd_tracker,
           pc, min_cluster_size, events, embeddings, features, clusters, k, cluster,
           num_clusters, noise_count, fit_predict, feature_engineer, clustering_engine,
           pre, stages,
           returned >>

syncVars == << syncPc, syncSource, syncEvents, syncStats, cwd_tracker >>
runVars == << pc, min_cluster_size, events, embeddings, features, clusters, k, cluster,
              num_clusters, noise_count, fit_predict, feature_engineer, clustering_engine,
           pre, stages >>

(***************************************************************************)
(* Bounds and inputs                                                       *)
(***************************************************************************)
\* The event store holds at most this many events.
MaxEvents == 6

\* min_cluster_size of config.yaml, read anew by every invocation.
MinClusterSizes == {3, 6, 7}

\* Python's None, and a value that is not None, where a field is Optional.
NULL == << >>
Some(v) == << v >>

\* cluster_events returns early below this many events.
FastExitBelow == 5

\* ClusteringEngine's default n_neighbors; get_services does not pass one.
n_neighbors == 15

\* The weights of the configuration, in thousandths.
time_weight == 300
semantic_weight == 500
context_weight == 200

\* The sources sync_all reads.  Every sync parses the whole source again.
HomeDir == << "/", "home", "u" >>

ZenVisits ==
    << [visit_date |-> 1, url |-> "http://d", title |-> "docker docs", visit_type |-> 1] >>

ZshHistory ==
    << [timestamp |-> 2, command |-> "cd proj",
        cd |-> [tilde |-> FALSE, absolute |-> FALSE, parts |-> << "proj" >>]],
       [timestamp |-> 3, command |-> "export TOKEN=abc", cd |-> NULL] >>

GitRepos == << << "/", "home", "u", "proj" >> >>

GitCommits ==
    << [committed_date |-> 4, message |-> "docker compose", sha |-> "a1",
        author |-> "u", email |-> "u@h", files |-> 1, insertions |-> 2, deletions |-> 0] >>

\* privacy_patterns of the configuration: regular expressions without
\* metacharacters.
privacy_patterns == << "password=", "token=" >>

(***************************************************************************)
(* Sequences                                                               *)
(***************************************************************************)
Range(s) == { s[i] : i \in 1..Len(s) }

\* list.count and Counter: how often c occurs in labels.
Count(labels, c) == Cardinality({ i \in 1..Len(labels) : labels[i] = c })

RECURSIVE SumSeq(_)
SumSeq(s) == IF s = << >> THEN 0 ELSE Head(s) + SumSeq(Tail(s))

\* A variant of InsertByTimestamp that puts e first.
InsertFirst(sorted, e) == << e >> \o sorted

\* sorted(..., key=timestamp) and ORDER BY timestamp: stable, ties keep their order.
RECURSIVE InsertByTimestamp(_, _)
InsertByTimestamp(sorted, e) ==
    IF sorted = << >> THEN << e >>
    ELSE IF Head(sorted).timestamp <= e.timestamp
         THEN << Head(sorted) >> \o InsertByTimestamp(Tail(sorted), e)
         ELSE << e >> \o sorted

\* A variant of SortByTimestamp that leaves the order as it is.
Unsorted(s) == s

RECURSIVE SortByTimestamp(_)
SortByTimestamp(s) ==
    IF s = << >> THEN << >>
    ELSE InsertByTimestamp(SortByTimestamp(SubSeq(s, 1, Len(s) - 1)), s[Len(s)])

(***************************************************************************)
(* SentenceTransformer                                                     *)
(***************************************************************************)
\* model.encode(text, normalize_embeddings=True): a unit vector that is a
\* function of the text; its entries in thousandths.
SentenceVectors ==
    { << << "docker docs", " - ", "http://d" >>, << 600, 800 >> >>,
      << << "cd proj" >>, << 1000, 0 >> >>,
      << << "docker compose", " ", "(", "1", " files changed)" >>, << 800, 600 >> >> }

Encode(text) ==
    IF \E p \in SentenceVectors : p[1] = text
    THEN (CHOOSE p \in SentenceVectors : p[1] = text)[2]
    ELSE << 0, 1000 >>

(***************************************************************************)
(* Domain models                                                           *)
(***************************************************************************)
Event(id, type, timestamp, content, metadata, cwd) ==
    [id |-> id, type |-> type, timestamp |-> timestamp, content |-> content,
     metadata |-> metadata, embedding_id |-> NULL, cluster_id |-> NULL, cwd |-> cwd]

Embedding(id, event_id, content) ==
    [id |-> id, event_id |-> event_id, vector |-> Encode(content),
     model |-> "all-MiniLM-L6-v2"]

(***************************************************************************)
(* SQLiteEventRepository                                                   *)
(***************************************************************************)
\* What sqlite3 binds for e.cluster_id: None is NULL; a numpy int64 (the label
\* cluster_events assigned) is stored as its 8 bytes.
ClusterIdColumn(v) == IF v = NULL THEN NULL ELSE [bytes |-> v[1]]

\* int.from_bytes(bytes, "little") reads the 8 bytes as an unsigned number:
\* a negative value v comes back as 2^64 + v.
ClusterIdValue(col) ==
    IF col = NULL THEN NULL
    ELSE IF col.bytes >= 0 THEN Some(col.bytes)
    ELSE << "2^64 +", col.bytes >>

EventRow(e) ==
    [id |-> [text |-> e.id],
     type |-> e.type,
     timestamp |-> [iso |-> e.timestamp],
     content |-> e.content,
     metadata |-> [json |-> e.metadata],
     embedding_id |-> IF e.embedding_id # NULL THEN [text |-> e.embedding_id[1]] ELSE NULL,
     cluster_id |-> ClusterIdColumn(e.cluster_id),
     cwd |-> e.cwd]

\* A variant of EventOfRow that does not read the cwd column.
EventOfRowNoCwd(row) ==
    [id |-> row.id.text,
     type |-> row.type,
     timestamp |-> row.timestamp.iso,
     content |-> row.content,
     metadata |-> row.metadata.json,
     embedding_id |-> IF row.embedding_id # NULL THEN Some(row.embedding_id.text) ELSE NULL,
     cluster_id |-> ClusterIdValue(row.cluster_id),
     cwd |-> NULL]

EventOfRow(row) ==
    [id |-> row.id.text,
     type |-> row.type,
     timestamp |-> row.timestamp.iso,
     content |-> row.content,
     metadata |-> row.metadata.json,
     embedding_id |-> IF row.embedding_id # NULL THEN Some(row.embedding_id.text) ELSE NULL,
     cluster_id |-> ClusterIdValue(row.cluster_id),
     cwd |-> row.cwd]

\* INSERT OR REPLACE: the row with the same primary key is deleted and the new
\* row gets a new rowid, so it goes to the end.
RECURSIVE EventSaveMany(_, _)
EventSaveMany(rows, evts) ==
    IF evts = << >> THEN rows
    ELSE LET e == Head(evts)
             kept == SelectSeq(rows, LAMBDA r : r.id # EventRow(e).id)
         IN EventSaveMany(kept \o << EventRow(e) >>, Tail(evts))

\* SELECT * FROM events ORDER BY timestamp
EventGetAll(rows) ==
    LET loaded == [i \in 1..Len(rows) |-> EventOfRow(rows[i])]
    IN SortByTimestamp(loaded)

(***************************************************************************)
(* SQLiteClusterRepository                                                 *)
(***************************************************************************)
ClusterRow(c) ==
    [id |-> c.id,
     label |-> c.label,
     event_count |-> c.event_count,
     start_time |-> [iso |-> c.start_time],
     end_time |-> [iso |-> c.end_time],
     representative_events |->
         [json |-> [i \in 1..Len(c.representative_events) |->
                       [text |-> c.representative_events[i]]]],
     metadata |-> [json |-> c.metadata]]

\* A variant of ClusterSave that inserts nothing.
ClusterSaveDropped(store, c) == store

\* INSERT OR REPLACE INTO clusters, keyed by id.
ClusterSave(store, c) ==
    [i \in (DOMAIN store) \cup {c.id} |-> IF i = c.id THEN ClusterRow(c) ELSE store[i]]

(***************************************************************************)
(* ChromaDBEmbeddingRepository                                             *)
(***************************************************************************)
RECURSIVE EmbeddingSaveMany(_, _)
EmbeddingSaveMany(store, embs) ==
    IF embs = << >> THEN store
    ELSE LET e == Head(embs)
         IN EmbeddingSaveMany(
                [i \in (DOMAIN store) \cup {e.event_id} |->
                    IF i = e.event_id THEN e ELSE store[i]],
                Tail(embs))

(***************************************************************************)
(* Text.  A str is kept as written; Chars gives its characters, str methods*)
(* work on the characters.  A content built by an f-string or a join is the*)
(* tuple of its parts.                                                     *)
(***************************************************************************)
LowerLetters == << "a", "b", "c", "d", "e", "f", "g", "h", "i", "j", "k", "l", "m", "n", "o", "p", "q", "r", "s", "t", "u", "v", "w", "x", "y", "z" >>
UpperLetters == << "A", "B", "C", "D", "E", "F", "G", "H", "I", "J", "K", "L", "M", "N", "O", "P", "Q", "R", "S", "T", "U", "V", "W", "X", "Y", "Z" >>

Spelling ==
    { << "docker docs", << "d", "o", "c", "k", "e", "r", " ", "d", "o", "c", "s" >> >>,
      << "http://d", << "h", "t", "t", "p", ":", "/", "/", "d" >> >>,
      << " - ", << " ", "-", " " >> >>,
      << "cd proj", << "c", "d", " ", "p", "r", "o", "j" >> >>,
      << "Miscellaneous Activity", << "M", "i", "s", "c", "e", "l", "l", "a", "n", "e", "o", "u", "s", " ", "A", "c", "t", "i", "v", "i", "t", "y" >> >>,
      << " & ", << " ", "&", " " >> >>,
      << "1", << "1" >> >>,
      << "export TOKEN=abc", << "e", "x", "p", "o", "r", "t", " ", "T", "O", "K", "E", "N", "=", "a", "b", "c" >> >>,
      << "password=", << "p", "a", "s", "s", "w", "o", "r", "d", "=" >> >>,
      << "token=", << "t", "o", "k", "e", "n", "=" >> >>,
      << "docker compose", << "d", "o", "c", "k", "e", "r", " ", "c", "o", "m", "p", "o", "s", "e" >> >>,
      << " files changed)", << " ", "f", "i", "l", "e", "s", " ", "c", "h", "a", "n", "g", "e", "d", ")" >> >>,
      << "(", << "(" >> >>,
      << " ", << " " >> >>,
      << "cd ..", << "c", "d", " ", ".", "." >> >>,
      << "cd /tmp", << "c", "d", " ", "/", "t", "m", "p" >> >>,
      << "cd  ~/proj", << "c", "d", " ", " ", "~", "/", "p", "r", "o", "j" >> >>,
      << "cd ~", << "c", "d", " ", "~" >> >>,
      << "cd 'proj'", << "c", "d", " ", "'", "p", "r", "o", "j", "'" >> >>,
      << "cd", << "c", "d" >> >>,
      << "cdrecord", << "c", "d", "r", "e", "c", "o", "r", "d" >> >>,
      << "proj", << "p", "r", "o", "j" >> >>,
      << "tmp", << "t", "m", "p" >> >>,
      << "..", << ".", "." >> >> }

Spell(str) == (CHOOSE p \in Spelling : p[1] = str)[2]

RECURSIVE Chars(_)
Chars(content) ==
    IF content = << >> THEN << >> ELSE Spell(Head(content)) \o Chars(Tail(content))

IndexIn(letters, c) ==
    IF \E i \in 1..Len(letters) : letters[i] = c
    THEN CHOOSE i \in 1..Len(letters) : letters[i] = c
    ELSE 0

IsCased(c) == IndexIn(LowerLetters, c) # 0 \/ IndexIn(UpperLetters, c) # 0
LowerChar(c) == IF IndexIn(UpperLetters, c) # 0 THEN LowerLetters[IndexIn(UpperLetters, c)] ELSE c
UpperChar(c) == IF IndexIn(LowerLetters, c) # 0 THEN UpperLetters[IndexIn(LowerLetters, c)] ELSE c

\* str.lower()
Lower(w) == [i \in 1..Len(w) |-> LowerChar(w[i])]

\* str.title(): a cased character is upper-cased after an uncased one (or at
\* the start) and lower-cased after a cased one.
Title(w) ==
    [i \in 1..Len(w) |->
        IF i > 1 /\ IsCased(w[i - 1]) THEN LowerChar(w[i]) ELSE UpperChar(w[i])]

\* str.split(): the maximal runs of characters that are not whitespace.
RECURSIVE SplitFrom(_, _)
SplitFrom(chars, word) ==
    IF chars = << >> THEN (IF word = << >> THEN << >> ELSE << word >>)
    ELSE IF Head(chars) = " "
         THEN (IF word = << >> THEN << >> ELSE << word >>) \o SplitFrom(Tail(chars), << >>)
         ELSE SplitFrom(Tail(chars), Append(word, Head(chars)))

Split(chars) == SplitFrom(chars, << >>)

(***************************************************************************)
(* PrivacyFilter                                                           *)
(***************************************************************************)
\* Whether pat occurs somewhere in text.
Contains(text, pat) ==
    \E i \in 1..(Len(text) - Len(pat) + 1) : SubSeq(text, i, i + Len(pat) - 1) = pat

\* A variant of PatternSearch that compares the characters as they are.
PatternSearchCased(pattern, content) == Contains(Chars(content), Spell(pattern))

\* re.compile(p, re.IGNORECASE).search(content)
PatternSearch(pattern, content) == Contains(Lower(Chars(content)), Lower(Spell(pattern)))

is_allowed(content) ==
    ~ \E i \in 1..Len(privacy_patterns) : PatternSearch(privacy_patterns[i], content)

(***************************************************************************)
(* CWDTracker.  A path is the sequence of its components.                  *)
(***************************************************************************)
\* Path.resolve(): ".." steps up (not above the root "/"), "." stays.
RECURSIVE Resolve(_, _)
Resolve(done, parts) ==
    IF parts = << >> THEN done
    ELSE IF Head(parts) = ".." THEN
             Resolve(IF Len(done) <= 1 THEN done ELSE SubSeq(done, 1, Len(done) - 1), Tail(parts))
    ELSE IF Head(parts) = "." THEN Resolve(done, Tail(parts))
    ELSE Resolve(Append(done, Head(parts)), Tail(parts))

\* str.strip(chars): without the characters of chars at both ends.
RECURSIVE StripLeft(_, _)
StripLeft(text, chars) ==
    IF text # << >> /\ Head(text) \in chars THEN StripLeft(Tail(text), chars) ELSE text

Reverse(text) == [i \in 1..Len(text) |-> text[Len(text) - i + 1]]

Strip(text, chars) == Reverse(StripLeft(Reverse(StripLeft(text, chars)), chars))

\* The str whose characters are text.
Unspell(text) == (CHOOSE p \in Spelling : p[2] = text)[1]

\* Path(text).parts without the root: the components between the slashes.
RECURSIVE PartsFrom(_, _)
PartsFrom(text, part) ==
    IF text = << >> THEN (IF part = << >> THEN << >> ELSE << Unspell(part) >>)
    ELSE IF Head(text) = "/"
         THEN (IF part = << >> THEN << >> ELSE << Unspell(part) >>)
              \o PartsFrom(Tail(text), << >>)
         ELSE PartsFrom(Tail(text), Append(part, Head(text)))

\* CD_PATTERN.match(command.strip()) for ^cd\s+(.+)$, then
\* match.group(1).strip().strip("'\""): the target, or None without a match.
CD_PATTERN(command) ==
    LET text == Strip(Spell(command), { " " })
    IN IF Len(text) >= 4 /\ text[1] = "c" /\ text[2] = "d" /\ text[3] = " "
       THEN Some(Strip(Strip(SubSeq(text, 3, Len(text)), { " " }), { "'", "\"" }))
       ELSE NULL

\* What infer_cwd makes of the target before it resolves it: below the home
\* directory (~, with target[2:] joined to it), absolute, or relative.
cd_target(command) ==
    LET match == CD_PATTERN(command)
    IN IF match = NULL THEN NULL
       ELSE LET target == match[1]
                rest == SubSeq(target, 3, Len(target))
            IN IF Head(target) = "~"
               THEN (IF rest # << >> /\ Head(rest) = "/"
                     THEN [tilde |-> FALSE, absolute |-> TRUE,
                           parts |-> << "/" >> \o PartsFrom(rest, << >>)]
                     ELSE [tilde |-> TRUE, absolute |-> FALSE,
                           parts |-> PartsFrom(rest, << >>)])
               ELSE IF Head(target) = "/"
                    THEN [tilde |-> FALSE, absolute |-> TRUE,
                          parts |-> << "/" >> \o PartsFrom(target, << >>)]
                    ELSE [tilde |-> FALSE, absolute |-> FALSE,
                          parts |-> PartsFrom(target, << >>)]

\* A variant of get_cwd_at_time that takes only the cd commands before timestamp.
RECURSIVE get_cwd_before_time(_, _)
get_cwd_before_time(cwd_history, timestamp) ==
    IF cwd_history = << >> THEN HomeDir
    ELSE LET last == cwd_history[Len(cwd_history)]
         IN IF last[1] < timestamp THEN last[2]
            ELSE get_cwd_before_time(SubSeq(cwd_history, 1, Len(cwd_history) - 1), timestamp)

\* The most recent cd at or before timestamp, else the home directory.
RECURSIVE get_cwd_at_time(_, _)
get_cwd_at_time(cwd_history, timestamp) ==
    IF cwd_history = << >> THEN HomeDir
    ELSE LET last == cwd_history[Len(cwd_history)]
         IN IF last[1] <= timestamp THEN last[2]
            ELSE get_cwd_at_time(SubSeq(cwd_history, 1, Len(cwd_history) - 1), timestamp)

\* infer_cwd: the cwd it returns and the history it leaves.
infer_cwd(cwd_history, line) ==
    IF line.cd # NULL THEN
        LET target == IF line.cd.tilde THEN HomeDir \o line.cd.parts
                      ELSE IF ~ line.cd.absolute
                           THEN get_cwd_at_time(cwd_history, line.timestamp) \o line.cd.parts
                      ELSE line.cd.parts
            resolved == Resolve(<< >>, target)
        IN [cwd |-> resolved,
            cwd_history |-> Append(cwd_history, << line.timestamp, resolved >>)]
    ELSE [cwd |-> get_cwd_at_time(cwd_history, line.timestamp),
          cwd_history |-> cwd_history]

\* str(n) of a one-digit number.
Digits == << "0", "1", "2", "3", "4", "5", "6", "7", "8", "9" >>

(***************************************************************************)
(* Parsers: each yields one Event per record, with a fresh id              *)
(***************************************************************************)
ZenBrowserParse(firstId) ==
    [i \in 1..Len(ZenVisits) |->
        LET row == ZenVisits[i]
            title == IF row.title # "" THEN row.title ELSE row.url
        IN Event(firstId + i - 1, "browser", row.visit_date,
                 IF title # row.url THEN << title, " - ", row.url >> ELSE << row.url >>,
                 [url |-> row.url, title |-> title, visit_type |-> Digits[row.visit_type + 1]],
                 NULL)]

RECURSIVE ZshHistoryParseFrom(_, _, _)
ZshHistoryParseFrom(lines, cwd_history, id) ==
    IF lines = << >> THEN << >>
    ELSE LET inferred == infer_cwd(cwd_history, Head(lines))
         IN << Event(id, "command", Head(lines).timestamp, << Head(lines).command >>,
                     [shell |-> "zsh"], inferred.cwd) >>
            \o ZshHistoryParseFrom(Tail(lines), inferred.cwd_history, id + 1)

ZshHistoryParse(firstId) == ZshHistoryParseFrom(ZshHistory, << >>, firstId)

GitParse(repo_path, firstId) ==
    [i \in 1..Len(GitCommits) |->
        LET commit == GitCommits[i]
        IN Event(firstId + i - 1, "commit", commit.committed_date,
                 IF commit.files # 0
                 THEN << commit.message, " ", "(", Digits[commit.files + 1], " files changed)" >>
                 ELSE << commit.message >>,
                 [sha |-> commit.sha, author |-> commit.author, email |-> commit.email,
                  files_changed |-> Digits[commit.files + 1],
                  insertions |-> Digits[commit.insertions + 1],
                  deletions |-> Digits[commit.deletions + 1]],
                 repo_path)]

(***************************************************************************)
(* EmbeddingEngine                                                         *)
(***************************************************************************)
\* embed_many: one vector per text, in order; the vector is a function of the text.
embed_many(texts) == [i \in 1..Len(texts) |-> Encode(texts[i])]

\* A variant of embed_events whose embeddings name no event.
embed_events_unlinked(evts, firstId) ==
    [i \in 1..Len(evts) |-> Embedding(firstId + i - 1, 0, evts[i].content)]

embed_events(evts, firstId) ==
    [i \in 1..Len(evts) |-> Embedding(firstId + i - 1, evts[i].id, evts[i].content)]

(***************************************************************************)
(* SyncService                                                             *)
(***************************************************************************)
\* sync_all syncs the browser, the shell, then every git repository.
SyncPlan ==
    << [stat |-> "browser", repo |-> NULL], [stat |-> "command", repo |-> NULL] >>
    \o [i \in 1..Len(GitRepos) |-> [stat |-> "commit", repo |-> GitRepos[i]]]

Parsed(source, firstId) ==
    IF source.stat = "browser" THEN ZenBrowserParse(firstId)
    ELSE IF source.stat = "command" THEN ZshHistoryParse(firstId)
    ELSE GitParse(source.repo, firstId)

\* The events of a source that pass the privacy filter.
Allowed(parsed) == SelectSeq(parsed, LAMBDA e : is_allowed(e.content))

\* How many events one sync_all stores.
SyncTotal == SumSeq([i \in 1..Len(SyncPlan) |-> Len(Allowed(Parsed(SyncPlan[i], 1)))])

\* The source after SyncPlan[syncSource], or the return of sync_all.
SyncAdvance(stats) ==
    IF syncSource < Len(SyncPlan)
    THEN /\ syncPc' = "parse"
         /\ syncSource' = syncSource + 1
         /\ syncStats' = stats
         /\ UNCHANGED returned
    ELSE /\ syncPc' = "idle"
         /\ syncSource' = 0
         /\ syncStats' = NULL
         /\ returned' = [call |-> "sync_all", raised |-> FALSE, value |-> stats]

\* sync_all is called.
sync_all ==
    /\ syncPc = "idle"
    /\ Len(eventRows) + SyncTotal <= MaxEvents
    /\ syncPc' = "parse"
    /\ syncSource' = 1
    /\ syncStats' = [browser |-> 0, command |-> 0, commit |-> 0]
    /\ UNCHANGED << eventRows, clusterStore, embeddingStore, nextEventId, nextEmbeddingId,
                    syncEvents, cwd_tracker, returned >>
    /\ UNCHANGED runVars

\* sync_browser, sync_shell, one repository of sync_git: parse, filter, and
\* the first save_many.
SyncSource(stat) ==
    /\ syncPc = "parse"
    /\ SyncPlan[syncSource].stat = stat
    /\ LET parsed == Parsed(SyncPlan[syncSource], nextEventId)
           allowed == Allowed(parsed)
       IN /\ nextEventId' = nextEventId + Len(parsed)
          /\ IF allowed # << >>
             THEN /\ eventRows' = EventSaveMany(eventRows, allowed)
                  /\ syncEvents' = allowed
                  /\ syncPc' = "saved"
                  /\ UNCHANGED << syncSource, syncStats, returned >>
             ELSE /\ UNCHANGED << eventRows, syncEvents >>
                  /\ SyncAdvance(syncStats)
    /\ UNCHANGED << clusterStore, embeddingStore, nextEmbeddingId, cwd_tracker >>
    /\ UNCHANGED runVars

sync_browser == SyncSource("browser")
sync_shell == SyncSource("command")
sync_git == SyncSource("commit")

\* The rest of sync_X: embed_events, embedding_repo.save_many, the events get
\* their embedding ids, and the second save_many.
SyncEmbed ==
    /\ syncPc = "saved"
    /\ LET embs == embed_events(syncEvents, nextEmbeddingId)
           updated == [i \in 1..Len(syncEvents) |->
                          [syncEvents[i] EXCEPT !.embedding_id = Some(embs[i].id)]]
           stat == SyncPlan[syncSource].stat
       IN /\ embeddingStore' = EmbeddingSaveMany(embeddingStore, embs)
          /\ nextEmbeddingId' = nextEmbeddingId + Len(embs)
          /\ eventRows' = EventSaveMany(eventRows, updated)
          /\ syncEvents' = << >>
          /\ SyncAdvance([syncStats EXCEPT ![stat] = @ + Len(syncEvents)])
    /\ UNCHANGED << clusterStore, nextEventId, cwd_tracker >>
    /\ UNCHANGED runVars

(***************************************************************************)
(* FeatureEngineer                                                         *)
(***************************************************************************)
\* abs(x)
Abs(x) == IF x < 0 THEN -x ELSE x

\* abs(total - 1.0) > 0.01 on doubles, for weights given in thousandths.  Off
\* the tolerance the doubles decide as the decimals do.  A decimal sum of
\* exactly 0.99 or 1.01 is a double just outside the tolerance or just inside
\* it (0.505 + 0.505 + 0.0 is 1.01, and 1.01 - 1.0 is 0.010000000000000009;
\* -0.5 + -0.5 + 2.01 is 1.0099999999999998): outside says which.
OutOfTolerance(total, outside) ==
    Abs(total - 1000) > 10 \/ (Abs(total - 1000) = 10 /\ outside)

\* FeatureEngineer.__init__ on weights in thousandths: what it raises, or the
\* instance.
FeatureEngineerInit(tw, sw, cw, outside) ==
    LET total == tw + sw + cw
    IN IF OutOfTolerance(total, outside)
       THEN [raised |-> TRUE, value |-> NULL]
       ELSE [raised |-> FALSE,
             value |-> [time_weight |-> tw, semantic_weight |-> sw, context_weight |-> cw]]

\* A number of a feature array, kept exactly: num / (den + micro * 1e-6 +
\* pico * 1e-12).  An array entry v / den as it is before any normalization:
Raw(v, den) == [num |-> v, den |-> den, micro |-> 0, pico |-> 0]

MinNum(col) == CHOOSE m \in { col[i].num : i \in 1..Len(col) } :
                   \A i \in 1..Len(col) : m <= col[i].num
MaxNum(col) == CHOOSE m \in { col[i].num : i \in 1..Len(col) } :
                   \A i \in 1..Len(col) : m >= col[i].num

\* _normalize on one column, (x - min) / (max - min + 1e-6): the entries of
\* a column have one denominator D, and
\* (n/D - nmin/D) / (nmax/D - nmin/D + 1e-6) = (n - nmin) / (nmax - nmin + 1e-6 * D).
NormalizeColumn(col) ==
    [i \in 1..Len(col) |->
        [num |-> col[i].num - MinNum(col),
         den |-> MaxNum(col) - MinNum(col),
         micro |-> col[i].den,
         pico |-> col[i].micro]]

\* features * weight
Weighted(col, weight) ==
    [i \in 1..Len(col) |->
        [weight |-> weight, num |-> col[i].num, den |-> col[i].den,
         micro |-> col[i].micro, pico |-> col[i].pico]]

\* max(set(cwds), key=cwds.count) if cwds else None: max gives the first of
\* the most frequent values in the iteration order of the set, which is
\* the order of the hashes (for str, different from process to process).
MostCommonCwd(cwds) ==
    IF cwds = << >> THEN { NULL }
    ELSE { c \in Range(cwds) : \A d \in Range(cwds) : Count(cwds, c) >= Count(cwds, d) }

EventTypes == << "browser", "command", "commit" >>

\* _extract_context_features: the three one-hot columns of the type, then
\* the cwd column.
ContextColumns(evts, most_common_cwd) ==
    [c \in 1..4 |->
        [i \in 1..Len(evts) |->
            IF c <= 3
            THEN Raw(IF evts[i].type = EventTypes[c] THEN 1 ELSE 0, 1)
            ELSE Raw(IF evts[i].cwd # NULL /\ evts[i].cwd = most_common_cwd THEN 1 ELSE 0, 1)]]

\* combine_features, for most_common_cwd the value max() gave: the time
\* column normalized twice, the columns of the embeddings and of the context
\* normalized once, each times its weight; one row per event.
combine_features(engineer, evts, vectors, most_common_cwd) ==
    LET timestamps == [i \in 1..Len(evts) |-> Raw(evts[i].timestamp, 1)]
        time_features == NormalizeColumn(NormalizeColumn(timestamps))
        semantic_features ==
            [j \in 1..Len(vectors[1]) |->
                NormalizeColumn([i \in 1..Len(vectors) |-> Raw(vectors[i][j], 1000)])]
        context == ContextColumns(evts, most_common_cwd)
        context_features == [c \in 1..4 |-> NormalizeColumn(context[c])]
        columns ==
            << Weighted(time_features, engineer.time_weight) >>
            \o [j \in 1..Len(semantic_features) |->
                   Weighted(semantic_features[j], engineer.semantic_weight)]
            \o [c \in 1..4 |-> Weighted(context_features[c], engineer.context_weight)]
    IN [i \in 1..Len(evts) |-> [j \in 1..Len(columns) |-> columns[j][i]]]

\* timestamps.min() of no event: numpy raises ValueError.
EmptyReduction(evts) == evts = << >>

\* if n != len(embeddings): raise ValueError
ShapeMismatch(evts, vectors) == Len(evts) # Len(vectors)

(***************************************************************************)
(* ClusteringEngine                                                        *)
(***************************************************************************)
\* ClusteringEngine(n_neighbors, min_cluster_size, min_samples): the three
\* parameters are stored as given; a min_samples of None or 0 is replaced by
\* min_cluster_size.  Nothing is validated.
ClusteringEngineInit(nn, mcs, ms) ==
    [raised |-> FALSE,
     value |-> [n_neighbors |-> nn, min_cluster_size |-> mcs,
                min_samples |-> IF ms = NULL \/ ms = Some(0) THEN mcs ELSE ms[1]]]

\* What HDBSCAN(min_cluster_size).fit_predict can return for n rows: -1 for
\* noise, clusters numbered from 0, each of at least min_cluster_size rows.
\* Which of these labellings it returns for given features is not modelled;
\* every one of them is possible.
Labelings(n, mcs) ==
    { labels \in [1..n -> -1..((n \div mcs) - 1)] :
        \A c \in 0..((n \div mcs) - 1) :
            \/ Count(labels, c) = 0 /\ \A d \in c..((n \div mcs) - 1) : Count(labels, d) = 0
            \/ Count(labels, c) >= mcs }

\* A variant of GroupFrom that groups nothing.
GroupFromNothing(evts, labels, i, dict) == << >>

\* for event, label in zip(events, labels): the dict, as its items in
\* insertion order.
RECURSIVE GroupFrom(_, _, _, _)
GroupFrom(evts, labels, i, dict) ==
    IF i > Len(evts) THEN dict
    ELSE LET at == { j \in 1..Len(dict) : dict[j].label = labels[i] }
         IN IF at = {}
            THEN GroupFrom(evts, labels, i + 1,
                           Append(dict, [label |-> labels[i], events |-> << evts[i] >>]))
            ELSE LET j == CHOOSE j \in at : TRUE
                 IN GroupFrom(evts, labels, i + 1,
                              [dict EXCEPT ![j].events = Append(@, evts[i])])

\* A variant of TooFew that never takes the early return.
TooFewNever(evts, mcs) == FALSE

\* if len(events) < self.min_cluster_size
TooFew(evts, mcs) == Len(evts) < mcs

\* cluster(): the dict for the labels fit_predict returned; fewer events than
\* min_cluster_size are all noise and reach neither UMAP nor HDBSCAN.
ClusterDict(evts, labels, mcs) ==
    IF TooFew(evts, mcs) THEN << [label |-> -1, events |-> evts] >>
    ELSE GroupFrom(evts, labels, 1, << >>)

\* UMAP.fit_transform and HDBSCAN.fit_predict check their parameters when they
\* are called: neither accepts a size below 1.
LibraryRejects(engine) ==
    engine.n_neighbors < 1 \/ engine.min_cluster_size < 1 \/ engine.min_samples < 1

\* _generate_label: the words longer than 3 characters, lower-cased.
RECURSIVE AllWords(_)
AllWords(evts) ==
    IF evts = << >> THEN << >>
    ELSE LET words == SelectSeq(Split(Chars(Head(evts).content)), LAMBDA w : Len(w) > 3)
         IN [i \in 1..Len(words) |-> Lower(words[i])] \o AllWords(Tail(evts))

\* Counter(all_words): the distinct words in first-encountered order.
RECURSIVE Distinct(_, _)
Distinct(words, seen) ==
    IF words = << >> THEN seen
    ELSE Distinct(Tail(words),
                  IF Head(words) \in Range(seen) THEN seen ELSE Append(seen, Head(words)))

\* most_common: by count, largest first; equal counts keep their order.
RECURSIVE InsertByCount(_, _, _)
InsertByCount(sorted, w, all_words) ==
    IF sorted = << >> THEN << w >>
    ELSE IF Count(all_words, Head(sorted)) >= Count(all_words, w)
         THEN << Head(sorted) >> \o InsertByCount(Tail(sorted), w, all_words)
         ELSE << w >> \o sorted

RECURSIVE MostCommonFrom(_, _)
MostCommonFrom(distinct, all_words) ==
    IF distinct = << >> THEN << >>
    ELSE InsertByCount(MostCommonFrom(SubSeq(distinct, 1, Len(distinct) - 1), all_words),
                       distinct[Len(distinct)], all_words)

MostCommon(all_words, n) ==
    LET ranked == MostCommonFrom(Distinct(all_words, << >>), all_words)
    IN SubSeq(ranked, 1, IF Len(ranked) < n THEN Len(ranked) ELSE n)

generate_label(evts) ==
    LET all_words == AllWords(evts)
        top_words == MostCommon(all_words, 3)
    IN IF all_words = << >> THEN Spell("Miscellaneous Activity")
       ELSE IF Len(top_words) >= 2
            THEN Title(top_words[1]) \o Spell(" & ") \o Title(top_words[2])
       ELSE IF Len(top_words) = 1 THEN Title(top_words[1])
       ELSE Spell("Miscellaneous Activity")

\* if not events: raise ValueError
EmptyCluster(evts) == evts = << >>

generate_cluster_summary(cluster_id, evts) ==
         LET events_sorted == SortByTimestamp(evts)
         IN [id |-> cluster_id,
             label |-> generate_label(events_sorted),
             event_count |-> Len(evts),
             start_time |-> events_sorted[1].timestamp,
             end_time |-> events_sorted[Len(events_sorted)].timestamp,
             representative_events |->
                 [i \in 1..(IF Len(events_sorted) < 3 THEN Len(events_sorted) ELSE 3) |->
                     events_sorted[i].id],
             metadata |-> << >>]

(***************************************************************************)
(* ClusterService.cluster_events                                           *)
(***************************************************************************)
\* A variant of FastExit that never exits.
FastExitNever(evts) == FALSE

\* if len(events) < 5: the fast exit.
FastExit(evts) == Len(evts) < FastExitBelow

\* A variant of IsNoise that takes no item for the noise.
NeverNoise(cluster_id) == FALSE

\* if cluster_id == -1: the dict item is the noise.
IsNoise(cluster_id) == cluster_id = -1

\* A variant of Members that assigns nothing.
MembersUnassigned(cluster_id, evts) == evts

\* for event in cluster_events: event.cluster_id = cluster_id
Members(cluster_id, evts) ==
    [i \in 1..Len(evts) |-> [evts[i] EXCEPT !.cluster_id = Some(cluster_id)]]

\* A variant of Counted that counts nothing.
Uncounted(n) == n

\* num_clusters += 1
Counted(n) == n + 1

\* The locals of a call that is not running.
RunIdle ==
    /\ pc' = "idle"
    /\ min_cluster_size' = 0
    /\ clustering_engine' = NULL
    /\ events' = << >>
    /\ embeddings' = << >>
    /\ features' = << >>
    /\ clusters' = << >>
    /\ k' = 0
    /\ cluster' = NULL
    /\ num_clusters' = 0
    /\ noise_count' = 0

\* cluster_events is called on a service built from the configuration:
\* get_all, then the fast exit.
cluster_events ==
    /\ pc = "idle"
    /\ pre' = [events |-> eventRows, clusters |-> clusterStore]
    /\ stages' = << "load" >>
    /\ LET loaded == EventGetAll(eventRows)
       IN IF FastExit(loaded)
          THEN /\ RunIdle
               /\ returned' = [call |-> "cluster_events", raised |-> FALSE,
                               value |-> [clusters |-> 0, noise |-> Len(loaded)]]
          ELSE /\ \E mcs \in MinClusterSizes :
                    /\ min_cluster_size' = mcs
                    /\ clustering_engine' = ClusteringEngineInit(n_neighbors, mcs, NULL).value
               /\ pc' = "loaded"
               /\ events' = loaded
               /\ UNCHANGED << embeddings, features, clusters, k, cluster,
                               num_clusters, noise_count, returned >>
    /\ UNCHANGED << eventRows, clusterStore, embeddingStore, nextEventId, nextEmbeddingId,
                    fit_predict >>
    /\ UNCHANGED << syncVars, feature_engineer >>

\* embeddings = self.embedding_engine.embed_many([e.content for e in events])
Embed ==
    /\ pc = "loaded"
    /\ embeddings' = embed_many([i \in 1..Len(events) |-> events[i].content])
    /\ stages' = Append(stages, "embed")
    /\ pc' = "embedded"
    /\ UNCHANGED << eventRows, clusterStore, embeddingStore, nextEventId, nextEmbeddingId,
                    min_cluster_size, events, features, clusters, k, cluster,
                    num_clusters, noise_count, fit_predict, pre, returned >>
    /\ UNCHANGED << syncVars, feature_engineer, clustering_engine >>

\* features = self.feature_engineer.combine_features(valid_events, embeddings)
Fuse ==
    /\ pc = "embedded"
    /\ ~ ShapeMismatch(events, embeddings)
    /\ ~ EmptyReduction(events)
    /\ \E most_common_cwd \in MostCommonCwd([i \in 1..Len(events) |-> events[i].cwd]) :
          features' = combine_features(feature_engineer, events, embeddings, most_common_cwd)
    /\ stages' = Append(stages, "fuse")
    /\ pc' = "fused"
    /\ UNCHANGED << eventRows, clusterStore, embeddingStore, nextEventId, nextEmbeddingId,
                    min_cluster_size, events, embeddings, clusters, k, cluster,
                    num_clusters, noise_count, fit_predict, pre, returned >>
    /\ UNCHANGED << syncVars, feature_engineer, clustering_engine >>

\* clusters = self.clustering_engine.cluster(valid_events, features).  The
\* reducer and the clusterer are seeded and deterministic: the labels of an
\* input seen before are the labels returned then.
Cluster ==
    /\ pc = "fused"
    /\ TooFew(events, min_cluster_size) \/ ~ LibraryRejects(clustering_engine)
    /\ LET key == << features, min_cluster_size >>
       IN IF TooFew(events, min_cluster_size)
          THEN /\ clusters' = ClusterDict(events, << >>, min_cluster_size)
               /\ stages' = stages
               /\ UNCHANGED fit_predict
          ELSE /\ \E labels \in Labelings(Len(events), min_cluster_size) :
                    /\ key \in DOMAIN fit_predict => labels = fit_predict[key]
                    /\ fit_predict' = IF key \in DOMAIN fit_predict THEN fit_predict
                                      ELSE fit_predict @@ (key :> labels)
                    /\ clusters' = ClusterDict(events, labels, min_cluster_size)
               /\ stages' = stages \o << "reduce", "cluster" >>
    /\ k' = 1
    /\ pc' = "loop"
    /\ UNCHANGED << eventRows, clusterStore, embeddingStore, nextEventId, nextEmbeddingId,
                    min_cluster_size, events, embeddings, features, cluster,
                    num_clusters, noise_count, pre, returned >>
    /\ UNCHANGED << syncVars, feature_engineer, clustering_engine >>

\* The loop is at the noise item: noise_count = len(cluster_events); continue
CountNoise ==
    /\ pc = "loop"
    /\ k <= Len(clusters)
    /\ IsNoise(clusters[k].label)
    /\ noise_count' = Len(clusters[k].events)
    /\ k' = k + 1
    /\ UNCHANGED << eventRows, clusterStore, embeddingStore, nextEventId, nextEmbeddingId,
                    pc, min_cluster_size, events, embeddings, features, clusters, cluster,
                    num_clusters, fit_predict, pre, stages, returned >>
    /\ UNCHANGED << syncVars, feature_engineer, clustering_engine >>

\* cluster = self.clustering_engine.generate_cluster_summary(cluster_id, cluster_events)
Summarize ==
    /\ pc = "loop"
    /\ k <= Len(clusters)
    /\ ~ IsNoise(clusters[k].label)
    /\ ~ EmptyCluster(clusters[k].events)
    /\ cluster' = generate_cluster_summary(clusters[k].label, clusters[k].events)
    /\ stages' = Append(stages, "summarize")
    /\ pc' = "summarized"
    /\ UNCHANGED << eventRows, clusterStore, embeddingStore, nextEventId, nextEmbeddingId,
                    min_cluster_size, events, embeddings, features, clusters, k,
                    num_clusters, noise_count, fit_predict, pre, returned >>
    /\ UNCHANGED << syncVars, feature_engineer, clustering_engine >>

\* self.cluster_repo.save(cluster)
SaveCluster ==
    /\ pc = "summarized"
    /\ clusterStore' = ClusterSave(clusterStore, cluster)
    /\ stages' = Append(stages, "save_cluster")
    /\ pc' = "cluster_saved"
    /\ UNCHANGED << eventRows, embeddingStore, nextEventId, nextEmbeddingId,
                    min_cluster_size, events, embeddings, features, clusters, k, cluster,
                    num_clusters, noise_count, fit_predict, pre, returned >>
    /\ UNCHANGED << syncVars, feature_engineer, clustering_engine >>

\* for event in cluster_events: event.cluster_id = cluster_id, then
\* self.event_repo.save_many(cluster_events) and num_clusters += 1
SaveEvents ==
    /\ pc = "cluster_saved"
    /\ LET members == Members(clusters[k].label, clusters[k].events)
       IN /\ clusters' = [clusters EXCEPT ![k].events = members]
          /\ eventRows' = EventSaveMany(eventRows, members)
    /\ num_clusters' = Counted(num_clusters)
    /\ k' = k + 1
    /\ stages' = Append(stages, "save_events")
    /\ pc' = "loop"
    /\ UNCHANGED << clusterStore, embeddingStore, nextEventId, nextEmbeddingId,
                    min_cluster_size, events, embeddings, features, cluster,
                    noise_count, fit_predict, pre, returned >>
    /\ UNCHANGED << syncVars, feature_engineer, clustering_engine >>

\* return {"clusters": num_clusters, "noise": noise_count}
Return ==
    /\ pc = "loop"
    /\ k > Len(clusters)
    /\ returned' = [call |-> "cluster_events", raised |-> FALSE,
                    value |-> [clusters |-> num_clusters, noise |-> noise_count]]
    /\ RunIdle
    /\ UNCHANGED << eventRows, clusterStore, embeddingStore, nextEventId, nextEmbeddingId,
                    fit_predict, pre, stages >>
    /\ UNCHANGED << syncVars, feature_engineer >>

\* The next call of the run raises (the embedding model, numpy, UMAP, HDBSCAN
\* or sqlite3): cluster_events catches nothing, the caller gets the exception.
Raise ==
    /\ pc # "idle"
    /\ ~ (pc = "loop" /\ k > Len(clusters))
    /\ ~ (pc = "loop" /\ k <= Len(clusters) /\ IsNoise(clusters[k].label))
    /\ returned' = [call |-> "cluster_events", raised |-> TRUE, value |-> NULL]
    /\ RunIdle
    /\ UNCHANGED << eventRows, clusterStore, embeddingStore, nextEventId, nextEmbeddingId,
                    fit_predict, pre, stages >>
    /\ UNCHANGED << syncVars, feature_engineer >>

(***************************************************************************)
(* Specifications                                                          *)
(***************************************************************************)
Init ==
    /\ eventRows = << >>
    /\ clusterStore = << >>
    /\ embeddingStore = << >>
    /\ nextEventId = 1
    /\ nextEmbeddingId = 1
    /\ syncPc = "idle"
    /\ syncSource = 0
    /\ syncEvents = << >>
    /\ syncStats = NULL
    /\ cwd_tracker = << >>
    /\ pc = "idle"
    /\ min_cluster_size = 0
    /\ events = << >>
    /\ embeddings = << >>
    /\ features = << >>
    /\ clusters = << >>
    /\ k = 0
    /\ cluster = NULL
    /\ num_clusters = 0
    /\ noise_count = 0
    /\ fit_predict = << >>
    /\ feature_engineer = FeatureEngineerInit(time_weight, semantic_weight, context_weight, FALSE).value
    /\ clustering_engine = NULL
    /\ pre = NULL
    /\ stages = << >>
    /\ returned = NULL

\* One caller at a time: sync_all and cluster_events do not overlap.
Next ==
    \/ pc = "idle" /\ sync_all
    \/ sync_browser
    \/ sync_shell
    \/ sync_git
    \/ SyncEmbed
    \/ syncPc = "idle" /\ cluster_events
    \/ Embed
    \/ Fuse
    \/ Cluster
    \/ CountNoise
    \/ Summarize
    \/ SaveCluster
    \/ SaveEvents
    \/ Return
    \/ Raise

Spec == Init /\ [][Next]_vars

\* The same callers when no call of a run raises: every run completes.
NextCompleted ==
    \/ pc = "idle" /\ sync_all
    \/ sync_browser
    \/ sync_shell
    \/ sync_git
    \/ SyncEmbed
    \/ syncPc = "idle" /\ cluster_events
    \/ Embed
    \/ Fuse
    \/ Cluster
    \/ CountNoise
    \/ Summarize
    \/ SaveCluster
    \/ SaveEvents
    \/ Return

SpecCompleted == Init /\ [][NextCompleted]_vars

\* Nothing serializes the two callers (no lock is taken on raw.db): one
\* cluster_events runs while sync_all calls go on, the repository calls of the
\* two interleaving in any order.
NextConcurrent ==
    \/ sync_all
    \/ sync_browser
    \/ sync_shell
    \/ sync_git
    \/ SyncEmbed
    \/ pre = NULL /\ cluster_events
    \/ Embed
    \/ Fuse
    \/ Cluster
    \/ CountNoise
    \/ Summarize
    \/ SaveCluster
    \/ SaveEvents
    \/ Return

SpecConcurrent == Init /\ [][NextConcurrent]_vars

(***************************************************************************)
(* The engines called directly                                             *)
(***************************************************************************)
\* The longest list of events or of embeddings passed to an engine.
MaxLen == 3

\* Weights in thousandths: sums of 0.99, 1.0, 1.001, 1.009, 1.01 and 1.011
\* occur, with negative weights and weights above 1 among them.
WeightValues == { -500, 0, 495, 505, 506, 1009, 1500 }

\* n_neighbors, min_cluster_size and min_samples passed to ClusteringEngine.
NeighborValues == { 0, 15 }
SizeValues == { -1, 0, 2, 3 }
SampleValues == { NULL, Some(0), Some(2) }

SampleEvents ==
    { Event(1, "browser", 1, << "docker docs", " - ", "http://d" >>, << >>, NULL),
      Event(2, "command", 2, << "cd proj" >>, << >>, << "/", "home", "u", "proj" >>),
      Event(3, "commit", 4, << "docker compose", " ", "(", "1", " files changed)" >>,
            << >>, << "/", "home", "u", "work" >>) }

SampleVectors == { << 600, 800 >>, << 1000, 0 >> }

SeqsUpTo(S, n) == UNION { [1..m -> S] : m \in 0..n }

\* Everything but the position, the engines and the result of the last call.
EngineFrame ==
    << eventRows, clusterStore, embeddingStore, nextEventId, nextEmbeddingId,
       syncVars, fit_predict, pre, num_clusters, noise_count >>

\* FeatureEngineer(time_weight, semantic_weight, context_weight)
NewFeatureEngineer ==
    /\ pc = "new"
    /\ \E tw \in WeightValues, sw \in WeightValues, cw \in WeightValues, outside \in BOOLEAN :
          LET made == FeatureEngineerInit(tw, sw, cw, outside)
          IN /\ feature_engineer' = made.value
             /\ returned' = [call |-> "FeatureEngineer", args |-> << tw, sw, cw >>,
                             raised |-> made.raised, value |-> made.value,
                             error |-> IF made.raised THEN "Weights must sum to 1.0" ELSE ""]
             /\ pc' = IF made.raised THEN "idle" ELSE "engineer"
    /\ UNCHANGED << EngineFrame, min_cluster_size, clustering_engine, events, embeddings,
                    features, clusters, k, cluster, stages >>

\* ClusteringEngine(n_neighbors, min_cluster_size, min_samples)
NewClusteringEngine ==
    /\ pc = "new"
    /\ \E nn \in NeighborValues, mcs \in SizeValues, ms \in SampleValues :
          LET made == ClusteringEngineInit(nn, mcs, ms)
          IN /\ clustering_engine' = made.value
             /\ min_cluster_size' = made.value.min_cluster_size
             /\ returned' = [call |-> "ClusteringEngine", args |-> << nn, mcs, ms >>,
                             raised |-> made.raised, value |-> made.value, error |-> ""]
             /\ pc' = IF made.raised THEN "idle" ELSE "clusterer"
    /\ UNCHANGED << EngineFrame, feature_engineer, events, embeddings,
                    features, clusters, k, cluster, stages >>

\* The caller's arguments of combine_features(events, embeddings).
CallCombineFeatures ==
    /\ pc = "engineer"
    /\ \E evts \in SeqsUpTo(SampleEvents, MaxLen), vectors \in SeqsUpTo(SampleVectors, MaxLen) :
          /\ events' = evts
          /\ embeddings' = vectors
    /\ pc' = "embedded"
    /\ UNCHANGED << EngineFrame, min_cluster_size, feature_engineer, clustering_engine,
                    features, clusters, k, cluster, stages, returned >>

\* _extract_context_features(events), called on the events alone.
ExtractContext ==
    /\ pc = "embedded"
    /\ returned.call = "FeatureEngineer"
    /\ \E most_common_cwd \in MostCommonCwd([i \in 1..Len(events) |-> events[i].cwd]) :
          returned' = [call |-> "_extract_context_features", args |-> << events >>,
                       raised |-> FALSE, value |-> ContextColumns(events, most_common_cwd),
                       error |-> ""]
    /\ UNCHANGED << EngineFrame, pc, min_cluster_size, feature_engineer, clustering_engine,
                    events, embeddings, features, clusters, k, cluster, stages >>

\* A variant of combine_features_error that looks at the events first.
combine_features_error_late(evts, vectors) ==
    IF EmptyReduction(evts)
    THEN "zero-size array to reduction operation minimum which has no identity"
    ELSE "Events and embeddings must have same length"

\* What combine_features raises: the length check comes first, then numpy's
\* min() of a column without rows.
combine_features_error(evts, vectors) ==
    IF ShapeMismatch(evts, vectors)
    THEN "Events and embeddings must have same length"
    ELSE "zero-size array to reduction operation minimum which has no identity"

\* combine_features raises to its caller; nothing was assigned.
FuseRaises ==
    /\ pc = "embedded"
    /\ ShapeMismatch(events, embeddings) \/ EmptyReduction(events)
    /\ returned' = [call |-> "combine_features", args |-> << events, embeddings >>,
                    raised |-> TRUE, value |-> NULL,
                    error |-> combine_features_error(events, embeddings)]
    /\ pc' = "idle"
    /\ UNCHANGED << EngineFrame, min_cluster_size, feature_engineer, clustering_engine,
                    events, embeddings, features, clusters, k, cluster, stages >>

\* The caller's arguments of cluster(events, features): one row per event.
CallCluster ==
    /\ pc = "clusterer"
    /\ \E evts \in SeqsUpTo(SampleEvents, MaxLen) :
          /\ events' = evts
          /\ features' =
                IF evts = << >> THEN << >>
                ELSE combine_features(
                         FeatureEngineerInit(time_weight, semantic_weight, context_weight, FALSE).value,
                         evts, embed_many([i \in 1..Len(evts) |-> evts[i].content]),
                         CHOOSE c \in MostCommonCwd([i \in 1..Len(evts) |-> evts[i].cwd]) : TRUE)
    /\ pc' = "fused"
    /\ UNCHANGED << EngineFrame, min_cluster_size, feature_engineer, clustering_engine,
                    embeddings, clusters, k, cluster, stages, returned >>

\* cluster() reaches UMAP and HDBSCAN with a parameter they reject.
ClusterRaises ==
    /\ pc = "fused"
    /\ ~ TooFew(events, min_cluster_size)
    /\ LibraryRejects(clustering_engine)
    /\ stages' = Append(stages, "reduce")
    /\ returned' = [call |-> "cluster", args |-> << events, features >>,
                    raised |-> TRUE, value |-> NULL, error |-> "ValueError"]
    /\ RunIdle
    /\ UNCHANGED << eventRows, clusterStore, embeddingStore, nextEventId, nextEmbeddingId,
                    fit_predict, pre >>
    /\ UNCHANGED << syncVars, feature_engineer >>

\* The loop of cluster_events at an item handed to generate_cluster_summary.
CallSummary ==
    /\ pc = "clusterer"
    /\ \E cluster_id \in { 0 }, evts \in SeqsUpTo(SampleEvents, MaxLen) :
          clusters' = << [label |-> cluster_id, events |-> evts] >>
    /\ k' = 1
    /\ pc' = "loop"
    /\ UNCHANGED << EngineFrame, min_cluster_size, feature_engineer, clustering_engine,
                    events, embeddings, features, cluster, stages, returned >>

\* A variant of SummarizeRaises in which cluster_events skips the item.
SummarizeRecovers ==
    /\ pc = "loop"
    /\ k <= Len(clusters)
    /\ ~ IsNoise(clusters[k].label)
    /\ EmptyCluster(clusters[k].events)
    /\ k' = k + 1
    /\ UNCHANGED << EngineFrame, pc, min_cluster_size, feature_engineer, clustering_engine,
                    events, embeddings, features, clusters, cluster, stages, returned >>

\* generate_cluster_summary raises for an empty list; cluster_events has no
\* handler around the call, so the run ends with the error.
SummarizeRaises ==
    /\ pc = "loop"
    /\ k <= Len(clusters)
    /\ ~ IsNoise(clusters[k].label)
    /\ EmptyCluster(clusters[k].events)
    /\ returned' = [call |-> "cluster_events", args |-> << >>, raised |-> TRUE, value |-> NULL,
                    error |-> "Cannot generate summary for empty cluster"]
    /\ RunIdle
    /\ UNCHANGED << eventRows, clusterStore, embeddingStore, nextEventId, nextEmbeddingId,
                    fit_predict, pre, stages >>
    /\ UNCHANGED << syncVars, feature_engineer >>

InitEngine ==
    /\ eventRows = << >>
    /\ clusterStore = << >>
    /\ embeddingStore = << >>
    /\ nextEventId = 1
    /\ nextEmbeddingId = 1
    /\ syncPc = "idle"
    /\ syncSource = 0
    /\ syncEvents = << >>
    /\ syncStats = NULL
    /\ cwd_tracker = << >>
    /\ pc = "new"
    /\ min_cluster_size = 0
    /\ events = << >>
    /\ embeddings = << >>
    /\ features = << >>
    /\ clusters = << >>
    /\ k = 0
    /\ cluster = NULL
    /\ num_clusters = 0
    /\ noise_count = 0
    /\ fit_predict = << >>
    /\ feature_engineer = NULL
    /\ clustering_engine = NULL
    /\ pre = NULL
    /\ stages = << >>
    /\ returned = NULL

\* One engine is constructed and one of its methods is called on arguments of
\* the caller's choice.
NextEngine ==
    \/ NewFeatureEngineer
    \/ CallCombineFeatures
    \/ ExtractContext
    \/ Fuse
    \/ FuseRaises
    \/ NewClusteringEngine
    \/ CallCluster
    \/ clustering_engine # NULL /\ Cluster
    \/ clustering_engine # NULL /\ ClusterRaises
    \/ CallSummary
    \/ CountNoise
    \/ Summarize
    \/ SummarizeRaises

SpecEngine == InitEngine /\ [][NextEngine]_vars

(***************************************************************************)
(* generate_cluster_summary called twice                                   *)
(***************************************************************************)
\* ClusteringEngine's default min_cluster_size.
default_min_cluster_size == 5

\* Members to summarize: two with the same content and different timestamp,
\* id, type and cwd (1 and 4), two that share a timestamp (1 and 5), one
\* whose content is a bare url (6).
SummaryEvents ==
    { Event(1, "browser", 1, << "docker docs", " - ", "http://d" >>, << >>, NULL),
      Event(2, "command", 2, << "cd proj" >>, << >>, << "/", "home", "u", "proj" >>),
      Event(3, "commit", 4, << "docker compose", " ", "(", "1", " files changed)" >>,
            << >>, << "/", "home", "u", "work" >>),
      Event(4, "commit", 5, << "docker docs", " - ", "http://d" >>, << >>,
            << "/", "home", "u", "work" >>),
      Event(5, "command", 1, << "cd proj" >>, << >>, << "/", "home", "u" >>),
      Event(6, "browser", 3, << "http://d" >>, << >>, NULL) }

MemberLists == SeqsUpTo(SummaryEvents, MaxLen) \ { << >> }

\* The contents of evts as a bag.
ContentBag(evts) ==
    [c \in { evts[i].content : i \in 1..Len(evts) } |->
        Cardinality({ i \in 1..Len(evts) : evts[i].content = c })]

\* The loop of cluster_events at an item of some members.
SummarizeMembers ==
    /\ pc = "clusterer"
    /\ \E cluster_id \in { 0 }, evts \in MemberLists :
          clusters' = << [label |-> cluster_id, events |-> evts] >>
    /\ k' = 1
    /\ pc' = "loop"
    /\ UNCHANGED << EngineFrame, min_cluster_size, feature_engineer, clustering_engine,
                    events, embeddings, features, cluster, stages, returned >>

\* generate_cluster_summary is called a second time, on members with the
\* contents of the first call's; pre keeps the first call.
SummarizeAgain ==
    /\ pc = "summarized"
    /\ pre = NULL
    /\ pre' = [events |-> clusters[k].events, cluster |-> cluster]
    /\ \E evts \in MemberLists :
          /\ ContentBag(evts) = ContentBag(clusters[k].events)
          /\ clusters' = << [label |-> clusters[k].label, events |-> evts] >>
    /\ cluster' = NULL
    /\ pc' = "loop"
    /\ UNCHANGED << eventRows, clusterStore, embeddingStore, nextEventId, nextEmbeddingId,
                    syncVars, fit_predict, num_clusters, noise_count,
                    min_cluster_size, feature_engineer, clustering_engine,
                    events, embeddings, features, k, stages, returned >>

InitSummary ==
    /\ eventRows = << >>
    /\ clusterStore = << >>
    /\ embeddingStore = << >>
    /\ nextEventId = 1
    /\ nextEmbeddingId = 1
    /\ syncPc = "idle"
    /\ syncSource = 0
    /\ syncEvents = << >>
    /\ syncStats = NULL
    /\ cwd_tracker = << >>
    /\ pc = "clusterer"
    /\ min_cluster_size = default_min_cluster_size
    /\ events = << >>
    /\ embeddings = << >>
    /\ features = << >>
    /\ clusters = << >>
    /\ k = 0
    /\ cluster = NULL
    /\ num_clusters = 0
    /\ noise_count = 0
    /\ fit_predict = << >>
    /\ feature_engineer = NULL
    /\ clustering_engine = ClusteringEngineInit(n_neighbors, default_min_cluster_size, NULL).value
    /\ pre = NULL
    /\ stages = << >>
    /\ returned = NULL

\* One engine summarizes some members, then members with the same contents.
NextSummary ==
    \/ SummarizeMembers
    \/ Summarize
    \/ SummarizeAgain

SpecSummary == InitSummary /\ [][NextSummary]_vars

(***************************************************************************)
(* sync_shell, one history line at a time                                  *)
(***************************************************************************)
\* The most history lines one parse reads, and the latest timestamp of a line.
MaxLines == 3
MaxTime == 2

\* The commands of the history lines: cd with a relative, a parent, an
\* absolute, a home and a quoted target, cd alone, and a command that only
\* starts with the letters cd.
Commands ==
    { "cd proj", "cd ..", "cd /tmp", "cd  ~/proj", "cd ~", "cd 'proj'", "cd", "cdrecord" }

TrackerFrame ==
    << eventRows, clusterStore, embeddingStore, nextEmbeddingId, syncSource, syncStats,
       runVars >>

\* cwd_tracker = CWDTracker(Path.home()); parser = ZshHistoryParser(...); events = []
NewCWDTracker ==
    /\ syncPc = "idle"
    /\ syncPc' = "parse"
    /\ cwd_tracker' = << >>
    /\ syncEvents' = << >>
    /\ UNCHANGED << TrackerFrame, nextEventId, returned >>

\* One match of EXTENDED_PATTERN: infer_cwd(command, timestamp), the Event is
\* yielded and, when the privacy filter allows it, appended to events.  The
\* lines of a history file come in any order of their timestamps.
ParseLine ==
    /\ syncPc = "parse"
    /\ Len(syncEvents) < MaxLines
    /\ \E command \in Commands, timestamp \in 1..MaxTime :
          LET line == [timestamp |-> timestamp, command |-> command,
                       cd |-> cd_target(command)]
              inferred == infer_cwd(cwd_tracker, line)
              event == Event(nextEventId, "command", timestamp, << command >>,
                             [shell |-> "zsh"], inferred.cwd)
          IN /\ cwd_tracker' = inferred.cwd_history
             /\ syncEvents' = IF is_allowed(event.content)
                               THEN Append(syncEvents, event) ELSE syncEvents
             /\ returned' = [call |-> "infer_cwd", raised |-> FALSE, value |-> inferred.cwd]
    /\ nextEventId' = nextEventId + 1
    /\ UNCHANGED << TrackerFrame, syncPc >>

InitTracker ==
    /\ eventRows = << >>
    /\ clusterStore = << >>
    /\ embeddingStore = << >>
    /\ nextEventId = 1
    /\ nextEmbeddingId = 1
    /\ syncPc = "idle"
    /\ syncSource = 2
    /\ syncEvents = << >>
    /\ syncStats = [browser |-> 0, command |-> 0, commit |-> 0]
    /\ cwd_tracker = << >>
    /\ pc = "idle"
    /\ min_cluster_size = 0
    /\ events = << >>
    /\ embeddings = << >>
    /\ features = << >>
    /\ clusters = << >>
    /\ k = 0
    /\ cluster = NULL
    /\ num_clusters = 0
    /\ noise_count = 0
    /\ fit_predict = << >>
    /\ feature_engineer = NULL
    /\ clustering_engine = NULL
    /\ pre = NULL
    /\ stages = << >>
    /\ returned = NULL

NextTracker ==
    \/ NewCWDTracker
    \/ ParseLine

SpecTracker == InitTracker /\ [][NextTracker]_vars

(***************************************************************************)
(* Views of the stores the properties read                                 *)
(***************************************************************************)
\* The (id, cluster_id) columns of the table events.
ClusterIdsOf(rows) == { << rows[i].id, rows[i].cluster_id >> : i \in 1..Len(rows) }

\* The cluster_id get_all gives for the event with this id.
ClusterIdOfEvent(rows, id) ==
    LET loaded == EventGetAll(rows)
    IN loaded[CHOOSE i \in 1..Len(loaded) : loaded[i].id = id].cluster_id

\* The rows whose event has this cluster_id.
EventsOfCluster(rows, cid) ==
    { i \in 1..Len(rows) : EventOfRow(rows[i]).cluster_id = Some(cid) }

\* A row but for its cluster_id column.
Frame(row) == [row EXCEPT !.cluster_id = NULL]

\* The last call to finish was a cluster_events that returned.
RunReturned ==
    /\ pc = "idle"
    /\ returned # NULL
    /\ returned.call = "cluster_events"
    /\ ~ returned.raised

\* Nothing but a cluster_events has acted since pre was taken.
SinceRunStarted ==
    /\ pre # NULL
    /\ syncPc = "idle"
    /\ pc # "idle" \/ (returned # NULL /\ returned.call = "cluster_events")

\* The dict items of the run that are clusters, not the noise.
NonNoise == { j \in 1..Len(clusters) : clusters[j].label # -1 }

\* Loading, Fusing, Reducing, Clustering, Summarizing, Persisting.
StageRank(stage) ==
    IF stage = "load" THEN 1
    ELSE IF stage = "embed" THEN 2
    ELSE IF stage = "fuse" THEN 3
    ELSE IF stage = "reduce" THEN 4
    ELSE IF stage = "cluster" THEN 5
    ELSE IF stage = "summarize" THEN 6
    ELSE 7

(***************************************************************************)
(* Properties                                                              *)
(***************************************************************************)
\* C1: a cluster_events that raises leaves the cluster store and every
\* event's stored cluster_id as they were when the run started.
C1_FailedRunPersistsNothing ==
    [][Raise => /\ clusterStore' = pre.clusters
                /\ ClusterIdsOf(eventRows') = ClusterIdsOf(pre.events)]_vars

\* C2: when no run is in progress, after completed runs and syncs, the
\* event_count of every stored cluster is the number of stored events whose
\* cluster_id is the cluster's id.
C2_EventCountMatches ==
    pc = "idle" =>
        \A id \in DOMAIN clusterStore :
            clusterStore[id].event_count = Cardinality(EventsOfCluster(eventRows, id))

\* C3: when a run returns, every event it treated as noise (the events under
\* label -1, or all the events of a fast exit) has cluster_id None in the store.
C3_NoiseHasNullClusterId ==
    [][/\ Return =>
            \A j \in 1..Len(clusters) : clusters[j].label = -1 =>
                \A i \in 1..Len(clusters[j].events) :
                    ClusterIdOfEvent(eventRows', clusters[j].events[i].id) = NULL
       /\ (cluster_events /\ Len(eventRows) < 5) =>
            \A i \in 1..Len(eventRows') : EventOfRow(eventRows'[i]).cluster_id = NULL]_vars

\* C4: when a run of at least 5 events returns, the cluster store holds
\* exactly the clusters that run summarized.
C4_ClustersReplacedWholesale ==
    [][Return =>
          /\ DOMAIN clusterStore' = { clusters[j].label : j \in NonNoise }
          /\ \A j \in NonNoise :
                clusterStore'[clusters[j].label] =
                    ClusterRow(generate_cluster_summary(clusters[j].label, clusters[j].events))]_vars

\* C5: when no run is in progress, every stored event whose cluster_id is
\* not None has the id of a cluster in the cluster store.
C5_ClusterIdReferencesCluster ==
    pc = "idle" =>
        \A i \in 1..Len(eventRows) :
            LET cid == EventOfRow(eventRows[i]).cluster_id
            IN cid # NULL => cid[1] \in DOMAIN clusterStore

\* C5 happens: no run is in progress and a stored event has a cluster_id.
C5_Witness ==
    /\ pc = "idle"
    /\ \E i \in 1..Len(eventRows) : EventOfRow(eventRows[i]).cluster_id # NULL

\* C6: no stored cluster has id -1 and no stored event has cluster_id -1;
\* every stored cluster id is non-negative.
C6_NoNegativeClusterId ==
    /\ \A id \in DOMAIN clusterStore : id >= 0 /\ clusterStore[id].id >= 0
    /\ \A i \in 1..Len(eventRows) :
          eventRows[i].cluster_id = NULL \/ eventRows[i].cluster_id.bytes >= 0

\* C6 happens: a run that met noise has saved a cluster and its events.
C6_Witness ==
    /\ pc = "loop"
    /\ noise_count > 0
    /\ num_clusters > 0
    /\ DOMAIN clusterStore # {}
    /\ \E i \in 1..Len(eventRows) : eventRows[i].cluster_id # NULL

\* C7: a cluster_events on fewer than 5 stored events returns clusters 0 and
\* noise N, the number of stored events, invokes no stage after the load,
\* and writes to neither store.
C7_FastExit ==
    [][(cluster_events /\ Len(eventRows) < 5) =>
          /\ pc' = "idle"
          /\ returned' = [call |-> "cluster_events", raised |-> FALSE,
                          value |-> [clusters |-> 0, noise |-> Len(eventRows)]]
          /\ \A i \in 1..Len(stages') :
                stages'[i] \notin {"embed", "fuse", "reduce", "cluster", "summarize"}
          /\ eventRows' = eventRows
          /\ clusterStore' = clusterStore]_vars

\* C7 happens: a run on 3 stored events has returned.
C7_Witness ==
    /\ RunReturned
    /\ Len(eventRows) = 3
    /\ returned.value = [clusters |-> 0, noise |-> 3]
    /\ stages = << "load" >>

\* C8: when a run of at least 5 events returns, every label L >= 0 of the
\* clusterer has a stored cluster with id L, and every event grouped under L
\* has cluster_id L in the store.
C8_ClustersAndMembersPersisted ==
    [][Return =>
          \A j \in 1..Len(clusters) : clusters[j].label >= 0 =>
              /\ clusters[j].label \in DOMAIN clusterStore'
              /\ clusterStore'[clusters[j].label].id = clusters[j].label
              /\ \A i \in 1..Len(clusters[j].events) :
                    ClusterIdOfEvent(eventRows', clusters[j].events[i].id)
                        = Some(clusters[j].label)]_vars

\* C8 happens: a run has returned with two clusters, and the events of the
\* second are stored with its id.
C8_Witness ==
    /\ RunReturned
    /\ returned.value.clusters = 2
    /\ Cardinality(EventsOfCluster(eventRows, 1)) >= 3

\* C9: the stages of a run come in the order load, embed, fuse, reduce,
\* cluster, summarize, persist: every write to a store comes after the
\* summary of every cluster of the run.
C9_PersistAfterAllSummaries ==
    /\ \A i, j \in 1..Len(stages) : i < j => StageRank(stages[i]) <= StageRank(stages[j])
    /\ pc # "idle" =>
          \A i \in 1..Len(stages) : StageRank(stages[i]) = 7 =>
              Count(SubSeq(stages, 1, i - 1), "summarize") = Cardinality(NonNoise)

\* C10: a run changes nothing of the stored events but cluster_id: the same
\* events are stored, each with the id, type, timestamp, content, metadata,
\* embedding_id and cwd it had when the run started.
C10_RunChangesOnlyClusterId ==
    SinceRunStarted =>
        /\ Len(eventRows) = Len(pre.events)
        /\ { Frame(eventRows[i]) : i \in 1..Len(eventRows) }
               = { Frame(pre.events[i]) : i \in 1..Len(pre.events) }

\* C10 happens: a run has returned and has written cluster ids.
C10_Witness ==
    /\ RunReturned
    /\ SinceRunStarted
    /\ eventRows # pre.events
    /\ \E i \in 1..Len(eventRows) : eventRows[i].cwd # NULL /\ eventRows[i].cluster_id # NULL

\* C11: the result of a run that returns is its partition: clusters is the
\* number of labels >= 0, each saved once, noise is the number of events
\* under -1, the event_count of the clusters saved plus noise is the number
\* of events loaded; with no label >= 0 the result is clusters 0 and noise N,
\* returned and not raised, and the cluster store is as it was.
C11_ResultReportsPartition ==
    [][Return =>
          LET value == returned'.value
              sizes == [j \in 1..Len(clusters) |->
                           IF clusters[j].label = -1 THEN Len(clusters[j].events) ELSE 0]
              counts == [j \in 1..Len(clusters) |->
                            IF clusters[j].label >= 0
                            THEN clusterStore'[clusters[j].label].event_count ELSE 0]
          IN /\ ~ returned'.raised
             /\ value.clusters = Cardinality({ clusters[j].label : j \in NonNoise })
             /\ value.clusters = Count(stages', "save_cluster")
             /\ value.noise = SumSeq(sizes)
             /\ SumSeq(counts) + value.noise = Len(events)
             /\ NonNoise = {} =>
                   /\ value = [clusters |-> 0, noise |-> Len(events)]
                   /\ clusterStore' = pre.clusters]_vars

\* C11 happens: a run has returned one cluster and three noise events.
C11_Witness ==
    /\ RunReturned
    /\ returned.value = [clusters |-> 1, noise |-> 3]
    /\ Len(eventRows) = 6

\* The events of evts at the positions labelled c, in their order.
Picked(evts, labels, c) ==
    LET at == SelectSeq([i \in 1..Len(evts) |-> i], LAMBDA i : labels[i] = c)
    IN [j \in 1..Len(at) |-> evts[at[j]]]

\* C12: for every input with fewer rows than min_cluster_size, cluster()
\* returns the single group {-1: all events} and invokes neither the reducer
\* nor the clusterer.
C12_TooFewIsAllNoise ==
    [][(pc = "fused" /\ clustering_engine # NULL /\ Len(events) < min_cluster_size)
          => /\ pc' = "loop"
             /\ clusters' = << [label |-> -1, events |-> events] >>
             /\ stages' = stages
             /\ fit_predict' = fit_predict]_vars

C12_Witness ==
    /\ pc = "loop"
    /\ returned # NULL /\ returned.call = "ClusteringEngine"
    /\ Len(events) = 2 /\ min_cluster_size = 3
    /\ clusters = << [label |-> -1, events |-> events] >>
    /\ stages = << >>

\* What C13 says of the mapping dict returned for evts, labelled by labels.
IsPartition(evts, dict, labels) ==
    /\ \A j \in 1..Len(dict) : dict[j].label = -1 \/ dict[j].label >= 0
    /\ \A j \in 1..Len(dict) : dict[j].events # << >>
    /\ \A i, j \in 1..Len(dict) : i # j => dict[i].label # dict[j].label
    /\ SumSeq([j \in 1..Len(dict) |-> Len(dict[j].events)]) = Len(evts)
    /\ \A i \in 1..Len(evts) : \E j \in 1..Len(dict) : dict[j].label = labels[i]
    /\ \A j \in 1..Len(dict) : dict[j].events = Picked(evts, labels, dict[j].label)

\* The labels of a call of cluster(): -1 for every row on the early return,
\* else what fit_predict returned.
LabelsOf(evts, feats, mcs, memo) ==
    IF Len(evts) < mcs THEN [i \in 1..Len(evts) |-> -1] ELSE memo[<< feats, mcs >>]

\* C13 (as amended): for every non-empty input, the mapping cluster() returns
\* is a partition of the input events: every event is in exactly one group,
\* no group is empty, every key is -1 or non-negative, and the event at
\* position i is in the group of the label at position i.
C13_PartitionOfNonEmptyInput ==
    [][(pc = "fused" /\ pc' = "loop" /\ events # << >>)
          => IsPartition(events, clusters',
                         LabelsOf(events, features, min_cluster_size, fit_predict'))]_vars

C13_Witness ==
    /\ pc = "loop"
    /\ Len(events) = 3
    /\ Len(clusters) = 2
    /\ clusters[1].label = 0 /\ Len(clusters[1].events) = 2
    /\ clusters[2].label = -1 /\ clusters[2].events = << events[2] >>

\* C13 as stated: the same for every input, the empty one included.
C13_PartitionOfEveryInput ==
    [][(pc = "fused" /\ pc' = "loop")
          => IsPartition(events, clusters',
                         LabelsOf(events, features, min_cluster_size, fit_predict'))]_vars

\* C14: constructing a FeatureEngineer succeeds for every weight triple whose
\* sum is within 0.01 of 1.0 and fails with the configuration error for every
\* triple whose sum differs from 1.0 by more than 0.01; combine_features
\* never raises that error.
C14_ToleranceDecidesConstruction ==
    returned # NULL =>
        /\ returned.call = "FeatureEngineer" =>
              LET total == returned.args[1] + returned.args[2] + returned.args[3]
              IN /\ (total >= 990 /\ total <= 1010) =>
                        /\ ~ returned.raised
                        /\ feature_engineer = [time_weight |-> returned.args[1],
                                               semantic_weight |-> returned.args[2],
                                               context_weight |-> returned.args[3]]
                 /\ (total < 990 \/ total > 1010) =>
                        /\ returned.raised
                        /\ returned.error = "Weights must sum to 1.0"
                        /\ feature_engineer = NULL
        /\ (returned.call = "combine_features" /\ returned.raised) =>
              returned.error # "Weights must sum to 1.0"

\* C15: every FeatureEngineer that was constructed has a time, a semantic and
\* a context weight that are all non-negative.
C15_WeightsNonNegative ==
    feature_engineer # NULL =>
        /\ feature_engineer.time_weight >= 0
        /\ feature_engineer.semantic_weight >= 0
        /\ feature_engineer.context_weight >= 0

\* C16: a ClusteringEngine is never constructed with min_cluster_size < 1 or
\* n_neighbors < 1, so cluster() never runs with such values.
C16_ClusteringParametersValid ==
    clustering_engine # NULL =>
        /\ clustering_engine.min_cluster_size >= 1
        /\ clustering_engine.n_neighbors >= 1

\* C17: combine_features called with len(events) # len(embeddings) fails with
\* the shape-mismatch error before any feature is computed, and the events
\* and embeddings passed in are unchanged.
C17_ShapeMismatchRaisesFirst ==
    [][(pc = "embedded" /\ pc' # pc /\ Len(events) # Len(embeddings))
          => /\ returned'.call = "combine_features"
             /\ returned'.raised
             /\ returned'.error = "Events and embeddings must have same length"
             /\ features' = features
             /\ stages' = stages
             /\ events' = events
             /\ embeddings' = embeddings]_vars

C17_Witness ==
    /\ returned # NULL
    /\ returned.call = "combine_features"
    /\ returned.raised
    /\ returned.error = "Events and embeddings must have same length"
    /\ Len(events) = 2 /\ Len(embeddings) = 3
    /\ features = << >>

\* Whether weight/1000 * num / (den + micro * 1e-6 + pico * 1e-12) lies in
\* [0, 1].
InUnitInterval(x) ==
    LET scaled == x.weight * x.num
        over == scaled - 1000 * x.den
    IN /\ scaled >= 0
       /\ over <= 0 \/ over * 1000 <= x.micro

\* C18: every entry of the matrix combine_features returns lies in [0, 1].
C18_EntriesInUnitInterval ==
    (pc = "fused" /\ feature_engineer # NULL) =>
        \A i \in 1..Len(features) : \A j \in 1..Len(features[i]) :
            InUnitInterval(features[i][j])

\* The most frequent of cwds, None among them; of equally frequent values the
\* one encountered first.
FirstMostFrequent(cwds) ==
    IF cwds = << >> THEN NULL
    ELSE LET first == CHOOSE i \in 1..Len(cwds) :
                          /\ \A j \in 1..Len(cwds) : Count(cwds, cwds[i]) >= Count(cwds, cwds[j])
                          /\ \A j \in 1..(i - 1) : Count(cwds, cwds[j]) < Count(cwds, cwds[i])
         IN cwds[first]

\* C19: the cwd column of an event is 1 exactly when the event has a cwd and
\* it is the batch's most frequent cwd, a tie going to the value encountered
\* first; an event without a cwd gets 0; every evaluation of the same events
\* gives this same column.
C19_CwdColumnFirstMostFrequent ==
    (returned # NULL /\ returned.call = "_extract_context_features") =>
        LET cwds == [i \in 1..Len(events) |-> events[i].cwd]
        IN \A i \in 1..Len(events) :
              returned.value[4][i].num =
                  IF cwds[i] # NULL /\ cwds[i] = FirstMostFrequent(cwds) THEN 1 ELSE 0

\* C20: generate_cluster_summary called with no events fails with the
\* empty-cluster error and returns no Cluster; inside cluster_events the
\* error ends the run and reaches the caller: nothing is saved, nothing is
\* summarized again.
C20_EmptyClusterRaises ==
    [][(pc = "loop" /\ k <= Len(clusters) /\ clusters[k].label # -1
                    /\ clusters[k].events = << >>)
          => /\ returned'.call = "cluster_events"
             /\ returned'.raised
             /\ returned'.error = "Cannot generate summary for empty cluster"
             /\ cluster' = NULL
             /\ pc' = "idle"
             /\ stages' = stages
             /\ clusterStore' = clusterStore
             /\ eventRows' = eventRows]_vars

C20_Witness ==
    /\ returned # NULL
    /\ returned.call = "cluster_events"
    /\ returned.raised
    /\ returned.error = "Cannot generate summary for empty cluster"
    /\ pc = "idle"
    /\ cluster = NULL
    /\ clusterStore = << >>

C22_SummaryTimesCountAndId ==
    pc = "summarized" =>
        LET evts == clusters[k].events
            times == { evts[i].timestamp : i \in 1..Len(evts) }
        IN /\ cluster.start_time \in times
           /\ \A t \in times : cluster.start_time <= t
           /\ cluster.end_time \in times
           /\ \A t \in times : t <= cluster.end_time
           /\ cluster.start_time <= cluster.end_time
           /\ Len(evts) = 1 => cluster.start_time = cluster.end_time
           /\ cluster.event_count = Len(evts)
           /\ cluster.id = clusters[k].label

C22_Witness ==
    /\ pc = "summarized"
    /\ Len(clusters[k].events) = 2
    /\ clusters[k].events[1].timestamp = 5
    /\ clusters[k].events[2].timestamp = 2
    /\ cluster.start_time = 2
    /\ cluster.end_time = 5
    /\ cluster.event_count = 2

\* The tokens of chars on non-alphanumeric boundaries: the maximal runs of
\* letters and digits.
IsAlphanumeric(c) == IsCased(c) \/ c \in Range(Digits)

RECURSIVE TokensFrom(_, _)
TokensFrom(chars, word) ==
    IF chars = << >> THEN (IF word = << >> THEN << >> ELSE << word >>)
    ELSE IF ~ IsAlphanumeric(Head(chars))
         THEN (IF word = << >> THEN << >> ELSE << word >>) \o TokensFrom(Tail(chars), << >>)
         ELSE TokensFrom(Tail(chars), Append(word, Head(chars)))

RECURSIVE SpecifiedWords(_)
SpecifiedWords(evts) ==
    IF evts = << >> THEN << >>
    ELSE LET tokens == TokensFrom(Chars(Head(evts).content), << >>)
             lowered == [i \in 1..Len(tokens) |-> Lower(tokens[i])]
         IN SelectSeq(lowered, LAMBDA w : Len(w) > 3) \o SpecifiedWords(Tail(evts))

\* The label of the specified algorithm for the members in the order evts.
SpecifiedLabel(evts) ==
    LET top == MostCommon(SpecifiedWords(evts), 3)
    IN IF Len(top) >= 2 THEN Title(top[1]) \o Spell(" & ") \o Title(top[2])
       ELSE IF Len(top) = 1 THEN Title(top[1])
       ELSE Spell("Miscellaneous Activity")

\* C23: the label is the result of the specified algorithm: contents are
\* tokenized on non-alphanumeric boundaries, lower-cased, tokens of length
\* <= 3 dropped, the most frequent tokens taken (ties by first encounter);
\* "Top1 & Top2" title-cased, or the single token title-cased, or
\* "Miscellaneous Activity".
C23_LabelIsSpecifiedAlgorithm ==
    pc = "summarized" =>
        cluster.label = SpecifiedLabel(SortByTimestamp(clusters[k].events))

\* C24: the label is a function of the members' contents only: two member
\* lists with the same contents in the same supplied order get the same
\* label, whatever their timestamps, ids, types and cwds.
C24_LabelDependsOnContentOnly ==
    (pc = "summarized" /\ pre # NULL
        /\ [i \in 1..Len(pre.events) |-> pre.events[i].content]
               = [i \in 1..Len(clusters[k].events) |-> clusters[k].events[i].content])
        => cluster.label = pre.cluster.label

\* C25: generate_cluster_summary run twice on the same members gives the same
\* label and the same representative_events, also when the members come in a
\* different order and some share a timestamp.
C25_SameMembersSameSummary ==
    (pc = "summarized" /\ pre # NULL
        /\ \A e \in SummaryEvents : Count(pre.events, e) = Count(clusters[k].events, e))
        => /\ cluster.label = pre.cluster.label
           /\ cluster.representative_events = pre.cluster.representative_events

\* Whether some configured pattern occurs in content, letter case ignored.
Sensitive(content) ==
    LET text == Chars(content)
    IN \E p \in 1..Len(privacy_patterns) :
          LET pat == Spell(privacy_patterns[p])
          IN \E i \in 1..(Len(text) - Len(pat) + 1) :
                \A j \in 1..Len(pat) : LowerChar(text[i + j - 1]) = LowerChar(pat[j])

\* The contents the parsers yield for the sources.
ParsedContents ==
    UNION { { Parsed(SyncPlan[n], 1)[i].content : i \in 1..Len(Parsed(SyncPlan[n], 1)) } :
            n \in 1..Len(SyncPlan) }

\* The contents of the sources in which a configured pattern occurs.
SensitiveContents == { c \in ParsedContents : Sensitive(c) }

\* C26: is_allowed(content) is false exactly when a configured pattern
\* matches somewhere in content, case-insensitively; no event whose content
\* is not allowed is written to the event store or handed to the embedding
\* engine by a sync; the count a sync returns is the number of allowed events
\* it stored.
C26_SensitiveContentNeverStored ==
    /\ \A c \in ParsedContents : is_allowed(c) <=> c \notin SensitiveContents
    /\ [](/\ \A i \in 1..Len(eventRows) :
                eventRows[i].content \in ParsedContents \ SensitiveContents
          /\ \A i \in 1..Len(syncEvents) :
                syncEvents[i].content \in ParsedContents \ SensitiveContents
          /\ \A i \in DOMAIN embeddingStore :
                \E j \in 1..Len(eventRows) :
                    /\ eventRows[j].id.text = embeddingStore[i].event_id
                    /\ embeddingStore[i].vector = Encode(eventRows[j].content))
    /\ [][syncPc = "saved" =>
             LET stat == SyncPlan[syncSource].stat
                 parsed == Parsed(SyncPlan[syncSource], 1)
                 counted == IF syncPc' = "idle" THEN returned'.value[stat] ELSE syncStats'[stat]
                 stored == { j \in 1..Len(eventRows') :
                               \E i \in 1..Len(syncEvents) : eventRows'[j].id.text = syncEvents[i].id }
             IN /\ counted = syncStats[stat] + Cardinality(stored)
                /\ Cardinality(stored) = Len(syncEvents)
                /\ Cardinality(stored) =
                      Cardinality({ i \in 1..Len(parsed) :
                                      parsed[i].content \notin SensitiveContents })]_vars

C26_Witness ==
    /\ returned # NULL
    /\ returned.call = "sync_all"
    /\ returned.value = [browser |-> 1, command |-> 1, commit |-> 1]
    /\ << "export TOKEN=abc" >> \in SensitiveContents
    /\ Len(eventRows) = 3
    /\ Cardinality(DOMAIN embeddingStore) = 3
    /\ nextEventId = 5

\* C28: when sync_browser, sync_shell or sync_git returns, every event the call
\* stored has a row whose embedding_id is the id of an embedding that this call
\* added to the collection for that event (embedding.event_id = event.id), and
\* the call added exactly one embedding per stored event.
C28_StoredEventsAreEmbedded ==
    [][syncPc = "saved" =>
         LET saved == (DOMAIN embeddingStore') \ (DOMAIN embeddingStore)
         IN /\ Cardinality(saved) = Len(syncEvents)
            /\ \A i \in 1..Len(syncEvents) :
                  LET e == syncEvents[i]
                  IN /\ e.id \in saved
                     /\ embeddingStore'[e.id].event_id = e.id
                     /\ Cardinality({ j \in 1..Len(eventRows') :
                                        eventRows'[j].id.text = e.id }) = 1
                     /\ \A j \in 1..Len(eventRows') :
                           eventRows'[j].id.text = e.id =>
                               /\ eventRows'[j].embedding_id # NULL
                               /\ eventRows'[j].embedding_id.text = embeddingStore'[e.id].id
            /\ \A a, b \in saved :
                  embeddingStore'[a].id = embeddingStore'[b].id => a = b]_vars

\* The second sync_all has returned: six events stored, each row naming the
\* embedding kept for it.
C28_Witness ==
    /\ returned # NULL
    /\ returned.call = "sync_all"
    /\ syncPc = "idle"
    /\ Len(eventRows) = 6
    /\ Cardinality(DOMAIN embeddingStore) = 6
    /\ \A j \in 1..Len(eventRows) :
          /\ eventRows[j].embedding_id # NULL
          /\ eventRows[j].id.text \in DOMAIN embeddingStore
          /\ embeddingStore[eventRows[j].id.text].id = eventRows[j].embedding_id.text

\* The source record an event was parsed from: its type, timestamp and content.
SourceRecord(row) == << row.type, row.timestamp, row.content >>

\* C29: sync_all is idempotent on unchanged sources: no source record is in
\* the event store under two event ids, so the rows after a second sync_all
\* are the rows after the first.
C29_SyncAllIsIdempotent ==
    \A i, j \in 1..Len(eventRows) :
        SourceRecord(eventRows[i]) = SourceRecord(eventRows[j]) =>
            eventRows[i].id = eventRows[j].id

\* C27: the write-back of a clustering run (save_many of a cluster's events)
\* leaves the embedding_id of every row it rewrites as it was in the store: an
\* embedding_id that a sync stored after the run's get_all is still there.
C27_WriteBackKeepsEmbeddingId ==
    [][pc = "cluster_saved" =>
         \A i \in 1..Len(eventRows) : \A j \in 1..Len(eventRows') :
             (eventRows'[j].id = eventRows[i].id /\ eventRows[i].embedding_id # NULL)
                 => eventRows'[j].embedding_id = eventRows[i].embedding_id]_vars

\* A cd command: the word cd followed by a target.
IsCdCommand(command) ==
    LET words == Split(Spell(command))
    IN Len(words) >= 2 /\ words[1] = << "c", "d" >>

\* Whether the first n events came in non-decreasing order of their timestamps.
NonDecreasing(evts, n) ==
    \A i, j \in 1..n : i <= j => evts[i].timestamp <= evts[j].timestamp

\* The cwd the most recent cd command among the first n events returned, the
\* home directory when there is none.
RECURSIVE CwdAfter(_, _)
CwdAfter(evts, n) ==
    IF n = 0 THEN HomeDir
    ELSE IF IsCdCommand(evts[n].content[1]) THEN evts[n].cwd
    ELSE CwdAfter(evts, n - 1)

\* The directory a cd command names, seen from the directory `from`: its
\* target without quotes, below the home directory when it starts with ~,
\* itself when it starts with /, below `from` otherwise, with .. taken out.
TargetOf(command, from) ==
    LET word == Strip(Split(Spell(command))[2], { "'" })
    IN IF word[1] = "~" THEN Resolve(<< >>, HomeDir \o PartsFrom(Tail(word), << >>))
       ELSE IF word[1] = "/" THEN Resolve(<< >>, << "/" >> \o PartsFrom(word, << >>))
       ELSE Resolve(<< >>, from \o PartsFrom(word, << >>))

\* The entries of the history for the cd commands among the events.
RECURSIVE CdEntries(_)
CdEntries(evts) ==
    IF evts = << >> THEN << >>
    ELSE (IF IsCdCommand(Head(evts).content[1])
          THEN << << Head(evts).timestamp, Head(evts).cwd >> >> ELSE << >>)
         \o CdEntries(Tail(evts))

====
